---------------------------- MODULE Spec2Model ----------------------------
(***************************************************************************)
(* GAILAgent (src/algorithms/gail_agent.py): the training round train(),   *)
(* the advantage estimator _compute_gae / store_episode, checkpoint        *)
(* loading load_state_dict and the imitation reward predict_reward.        *)
(*                                                                         *)
(* Network parameters and optimizer states are abstract values: an         *)
(* optimizer step moves a parameter value to a fresh one (value + 1) and   *)
(* counts one step in the optimizer state.  Real numbers of the advantage  *)
(* estimator are exact rationals extended with +inf, -inf and NaN; the     *)
(* reward of predict_reward is computed in a decimal floating point with   *)
(* four significant digits.                                                *)
(***************************************************************************)
EXTENDS Integers, Sequences, FiniteSets, TLC

VARIABLES
    \* networks, optimizers, schedulers, normalizer (GAILAgent.__init__)
    actor, old_actor, critic, discriminator,
    actor_optim, critic_optim, discriminator_optim,
    actor_lr_scheduler, critic_lr_scheduler, discriminator_lr_scheduler,
    ob_norm,
    \* expert data iterator and experience buffer
    data_iter, buffer,
    \* configuration (rl_discount_factor, gae_lambda, gail_vanilla_reward)
    \* and demo_batches, the batches one pass over the data loader built
    \* from config.demo_path yields
    config,
    \* store_episode / _compute_gae: the rollout handed in, the critic's
    \* value predictions for its observations, the local array adv before
    \* normalization, and how the call ended
    rollouts, vpred, adv, outcome,
    \* train(): position, loop counter, the batch being processed
    pc, iter, batch,
    \* history of the running round
    log, round_start, rounds, raised,
    \* predict_reward: discriminator logit, returned reward, previous call
    logit, reward, prev,
    \* load_state_dict: the checkpoint of the last call, number of calls
    ckpt, loads

netVars == <<actor, old_actor, critic, discriminator,
             actor_optim, critic_optim, discriminator_optim,
             actor_lr_scheduler, critic_lr_scheduler,
             discriminator_lr_scheduler, ob_norm>>
gaeVars == <<rollouts, vpred, adv, outcome>>
trainVars == <<pc, iter, batch, log, round_start, rounds, raised>>
rewVars == <<logit, reward, prev>>
loadVars == <<ckpt, loads>>
vars == <<netVars, data_iter, buffer, config, gaeVars, trainVars, rewVars,
          loadVars>>

-----------------------------------------------------------------------------
(* Bounds of the model *)

\* longest rollout handed to store_episode
MaxT == 2
\* calls of train()
MaxRounds == 2
\* batches in one pass over the expert data loader
MaxExpertBatches == 2
\* config.rollout_length: capacity of the buffer, transitions per round
RolloutLength == 2
\* calls of load_state_dict
MaxLoads == 1
\* discriminator logits handed to predict_reward are -MaxLogit..MaxLogit
MaxLogit == 12

-----------------------------------------------------------------------------
(* Extended rationals: [n, d] with d > 0 is n/d in lowest terms; d = 0 is   *)
(* +inf (n = 1), -inf (n = -1) or NaN (n = 0), as IEEE arithmetic has them. *)

Abs(x) == IF x < 0 THEN -x ELSE x

Sign(x) == IF x < 0 THEN -1 ELSE IF x > 0 THEN 1 ELSE 0

RECURSIVE GCD(_, _)
GCD(a, b) == IF b = 0 THEN a ELSE GCD(b, a % b)

Norm(n, d) ==
    IF d = 0 THEN [n |-> Sign(n), d |-> 0]
    ELSE LET g == GCD(Abs(n), Abs(d))
             s == Sign(d)
         IN  [n |-> (s * n) \div g, d |-> (s * d) \div g]

Rat(n, d) == Norm(n, d)
Zero == Rat(0, 1)
One == Rat(1, 1)
PosInf == [n |-> 1, d |-> 0]
NaN == [n |-> 0, d |-> 0]

IsFinite(x) == x.d # 0

RNeg(x) == [n |-> -x.n, d |-> x.d]

RAdd(x, y) ==
    IF IsFinite(x) /\ IsFinite(y) THEN Norm(x.n * y.d + y.n * x.d, x.d * y.d)
    ELSE IF x = NaN \/ y = NaN THEN NaN
    ELSE IF IsFinite(y) THEN x
    ELSE IF IsFinite(x) THEN y
    ELSE IF x = y THEN x
    ELSE NaN

RSub(x, y) == RAdd(x, RNeg(y))

RMul(x, y) == Norm(x.n * y.n, x.d * y.d)

RDivInt(x, k) == Norm(x.n, x.d * k)

RECURSIVE RSum(_)
RSum(s) == IF s = <<>> THEN Zero ELSE RAdd(Head(s), RSum(Tail(s)))

AllFinite(s) == \A i \in DOMAIN s : IsFinite(s[i])

-----------------------------------------------------------------------------
(* _compute_gae *)

\* One iteration of the backward loop, for the 1-based step t: the code's
\* vpred[t] is vp[t] and its vpred[t + 1] is vp[t + 1].
GaeStepNoTerminalMask(t, lastgaelam, done, rew, vp, cfg) ==
    LET nonterminal == RSub(One, done[t])
        delta == RSub(RAdd(rew[t],
                           RMul(RMul(cfg.rl_discount_factor, vp[t + 1]),
                                nonterminal)),
                      vp[t])
    IN  RAdd(delta,
             RMul(RMul(cfg.rl_discount_factor, cfg.gae_lambda), lastgaelam))

GaeStepDropsBaseline(t, lastgaelam, done, rew, vp, cfg) ==
    LET nonterminal == RSub(One, done[t])
        delta == RAdd(rew[t],
                      RMul(RMul(cfg.rl_discount_factor, vp[t + 1]),
                           nonterminal))
    IN  RAdd(delta,
             RMul(RMul(RMul(cfg.rl_discount_factor, cfg.gae_lambda),
                       nonterminal),
                  lastgaelam))

GaeStep(t, lastgaelam, done, rew, vp, cfg) ==
    LET nonterminal == RSub(One, done[t])
        delta == RSub(RAdd(rew[t],
                           RMul(RMul(cfg.rl_discount_factor, vp[t + 1]),
                                nonterminal)),
                      vp[t])
    IN  RAdd(delta,
             RMul(RMul(RMul(cfg.rl_discount_factor, cfg.gae_lambda),
                       nonterminal),
                  lastgaelam))

\* for t in reversed(range(T)): adv[t] = lastgaelam = ...
RECURSIVE GaeLoop(_, _, _, _, _, _, _)
GaeLoop(t, lastgaelam, a, done, rew, vp, cfg) ==
    IF t = 0 THEN a
    ELSE LET x == GaeStep(t, lastgaelam, done, rew, vp, cfg)
         IN  GaeLoop(t - 1, x, [a EXCEPT ![t] = x], done, rew, vp, cfg)

\* ret = adv + vpred[:-1]
GaeReturns(a, vp) == [t \in DOMAIN a |-> RAdd(a[t], vp[t])]

\* (adv - adv.mean()) / adv.std(): each entry is kept as the centred value c
\* and the variance var it is divided by the root of, so the entry is
\* c / sqrt(var): NaN (0/0) when the variance is 0, finite otherwise.
Normalize(a) ==
    LET T == Len(a)
        mean == RDivInt(RSum(a), T)
        c == [t \in DOMAIN a |-> RSub(a[t], mean)]
        var == RDivInt(RSum([t \in DOMAIN a |-> RMul(c[t], c[t])]), T)
    IN  [t \in DOMAIN a |-> [c |-> c[t], var |-> var]]

NormIsFinite(x) == IsFinite(x.c) /\ IsFinite(x.var) /\ x.var.n # 0

\* The whole of _compute_gae on rollout r with the critic's predictions vp:
\* ok is FALSE when one of its assertions fails, and then r is untouched.
ComputeGae(r, vp, cfg) ==
    LET T == Len(r.done)
        a == GaeLoop(T, Zero, [t \in 1..T |-> Zero], r.done, r.rew, vp, cfg)
        ret == GaeReturns(a, vp)
    IN  IF Len(vp) # T + 1
        THEN [ok |-> FALSE, adv |-> <<>>, rollouts |-> r]
        ELSE IF ~AllFinite(a) \/ ~AllFinite(ret)
        THEN [ok |-> FALSE, adv |-> a, rollouts |-> r]
        ELSE [ok |-> TRUE, adv |-> a,
              rollouts |-> [ob |-> r.ob, done |-> r.done, rew |-> r.rew,
                            adv |-> Normalize(a), ret |-> ret]]

-----------------------------------------------------------------------------
(* Experience buffer (ReplayBuffer): a sequence of stored rollouts *)

RECURSIVE BufferSize(_)
BufferSize(b) == IF b = <<>> THEN 0 ELSE Len(Head(b).done) + BufferSize(Tail(b))

BufferFull(b) == BufferSize(b) >= RolloutLength

BufferStore(b, r) == Append(b, r)

BufferClear(b) == <<>>

\* whether a stored advantage that a sampled batch may draw is non-finite
BufferAdvFlags(b) ==
    UNION {{~NormIsFinite(b[i].adv[t]) : t \in DOMAIN b[i].adv} : i \in DOMAIN b}

-----------------------------------------------------------------------------
(* store_episode *)

NoRollout == [ob |-> 0, done |-> <<>>, rew |-> <<>>]

\* store_episode with the two calls in the other order
StoreEpisodeStoresFirst ==
    /\ pc = "idle"
    /\ outcome = "collected"
    /\ LET g == ComputeGae(rollouts, vpred, config)
       IN  /\ adv' = g.adv
           /\ rollouts' = g.rollouts
           /\ IF BufferFull(buffer)
              THEN /\ outcome' = "CapacityError"
                   /\ UNCHANGED buffer
              ELSE /\ outcome' = IF g.ok THEN "stored" ELSE "AssertionError"
                   /\ buffer' = BufferStore(buffer, g.rollouts)
    /\ UNCHANGED <<vpred, netVars, data_iter, config, trainVars, rewVars,
                   loadVars>>

StoreEpisode ==
    /\ pc = "idle"
    /\ outcome = "collected"
    /\ LET g == ComputeGae(rollouts, vpred, config)
       IN  /\ adv' = g.adv
           /\ rollouts' = g.rollouts
           /\ IF ~g.ok
              THEN /\ outcome' = "AssertionError"
                   /\ UNCHANGED buffer
              ELSE IF BufferFull(buffer)
              THEN /\ outcome' = "CapacityError"
                   /\ UNCHANGED buffer
              ELSE /\ outcome' = "stored"
                   /\ buffer' = BufferStore(buffer, g.rollouts)
    /\ UNCHANGED <<vpred, netVars, data_iter, config, trainVars, rewVars, loadVars>>

-----------------------------------------------------------------------------
(* The environment loop hands store_episode a rollout (training runs) *)

Half == Rat(1, 2)

\* rollouts the training runs collect: one transition (its normalized
\* advantage has zero variance) and two transitions with distinct advantages
TrainRollouts ==
    { [r |-> [ob |-> 2, done |-> <<One>>, rew |-> <<One>>],
       v |-> <<Zero, Zero>>],
      [r |-> [ob |-> 3, done |-> <<Zero, One>>, rew |-> <<Zero, One>>],
       v |-> <<Zero, Zero, Zero>>] }

Collect ==
    /\ pc = "idle"
    /\ outcome # "collected"
    /\ rounds < MaxRounds
    /\ \E x \in TrainRollouts :
          /\ rollouts' = x.r
          /\ vpred' = x.v
    /\ outcome' = "collected"
    /\ adv' = <<>>
    /\ UNCHANGED <<netVars, data_iter, buffer, config, trainVars, rewVars, loadVars>>

-----------------------------------------------------------------------------
(* train() *)

NoBatch == [kind |-> "none", low |-> FALSE, ratio |-> FALSE, advnf |-> FALSE,
            expert |-> <<0, 0>>]

\* num_batches of the policy loop and of the discriminator loop, with
\* ppo_epoch = 1, batch_size = 1 and discriminator_update_freq = 1
NumPolicyBatches == (1 * RolloutLength) \div 1

NumDiscBatches == (RolloutLength \div 1) \div 1

\* _copy_target_network(target, source): target takes source's parameters
CopyTargetNetwork(target, source) == source

\* lines 196-200: the three learning-rate schedulers step
TrainBegin ==
    /\ pc = "idle"
    /\ rounds < MaxRounds
    /\ outcome # "collected"
    /\ actor_lr_scheduler' = actor_lr_scheduler + 1
    /\ critic_lr_scheduler' = critic_lr_scheduler + 1
    /\ discriminator_lr_scheduler' = discriminator_lr_scheduler + 1
    /\ pc' = "sync"
    /\ rounds' = rounds + 1
    /\ round_start' = actor
    /\ raised' = "none"
    /\ log' = <<"sched_actor", "sched_critic", "sched_discriminator">>
    /\ UNCHANGED <<actor, old_actor, critic, discriminator, actor_optim,
                   critic_optim, discriminator_optim, ob_norm, data_iter,
                   buffer, config, gaeVars, iter, batch, rewVars, loadVars>>

\* line 202
TrainSync ==
    /\ pc = "sync"
    /\ old_actor' = CopyTargetNetwork(old_actor, actor)
    /\ pc' = "policy_loop"
    /\ iter' = 0
    /\ log' = Append(log, "sync")
    /\ UNCHANGED <<actor, critic, discriminator, actor_optim, critic_optim,
                   discriminator_optim, actor_lr_scheduler,
                   critic_lr_scheduler, discriminator_lr_scheduler, ob_norm,
                   data_iter, buffer, config, gaeVars, batch, round_start,
                   rounds, raised, rewVars, loadVars>>

\* the exception e leaves train()
Raise(e) ==
    /\ pc' = "idle"
    /\ raised' = e
    /\ batch' = NoBatch

\* lines 206-207: the loop head and self._buffer.sample(batch_size)
PolicySample ==
    /\ pc = "policy_loop"
    /\ iter < NumPolicyBatches
    /\ IF buffer = <<>>
       THEN /\ Raise("EmptyBuffer")
            /\ UNCHANGED log
       ELSE /\ \E low \in BOOLEAN, ratio \in BOOLEAN,
                  advnf \in BufferAdvFlags(buffer) :
                  batch' = [kind |-> "policy", low |-> low, ratio |-> ratio,
                            advnf |-> advnf, expert |-> <<0, 0>>]
            /\ pc' = "guard_log_prob"
            /\ log' = Append(log, "sample")
            /\ UNCHANGED raised
    /\ UNCHANGED <<netVars, data_iter, buffer, config, gaeVars, iter,
                   round_start, rounds, rewVars, loadVars>>

\* the policy loop is over
PolicyLoopExit ==
    /\ pc = "policy_loop"
    /\ iter >= NumPolicyBatches
    /\ pc' = "disc_loop"
    /\ iter' = 0
    /\ UNCHANGED <<netVars, data_iter, buffer, config, gaeVars, batch, log,
                   round_start, rounds, raised, rewVars, loadVars>>

\* _update_policy, lines 309-315: the guard on the old log-probability
GuardLogProb ==
    /\ pc = "guard_log_prob"
    /\ pc' = IF batch.low THEN "ipdb_log_prob" ELSE "guard_finite"
    /\ UNCHANGED <<netVars, data_iter, buffer, config, gaeVars, iter, batch,
                   log, round_start, rounds, raised, rewVars, loadVars>>

\* _update_policy, lines 317-335: the losses, then the guard on the
\* importance ratio and the advantage
GuardFinite ==
    /\ pc = "guard_finite"
    /\ pc' = IF batch.ratio \/ batch.advnf THEN "ipdb_finite" ELSE "policy_step"
    /\ UNCHANGED <<netVars, data_iter, buffer, config, gaeVars, iter, batch,
                   log, round_start, rounds, raised, rewVars, loadVars>>

\* ipdb.set_trace() is a breakpoint: the operator resumes the run ...
DebuggerContinue ==
    /\ pc \in {"ipdb_log_prob", "ipdb_finite"}
    /\ pc' = IF pc = "ipdb_log_prob" THEN "guard_finite" ELSE "policy_step"
    /\ UNCHANGED <<netVars, data_iter, buffer, config, gaeVars, iter, batch,
                   log, round_start, rounds, raised, rewVars, loadVars>>

\* ... or quits the debugger, which raises BdbQuit out of train()
DebuggerQuit ==
    /\ pc \in {"ipdb_log_prob", "ipdb_finite"}
    /\ Raise("BdbQuit")
    /\ UNCHANGED <<netVars, data_iter, buffer, config, gaeVars, iter, log,
                   round_start, rounds, rewVars, loadVars>>

\* _update_policy, lines 336-365: one step of the actor optimizer, one of
\* the critic optimizer
PolicyStepSyncsOldActor ==
    /\ pc = "policy_step"
    /\ actor' = actor + 1
    /\ actor_optim' = actor_optim + 1
    /\ critic' = critic + 1
    /\ critic_optim' = critic_optim + 1
    /\ old_actor' = actor'
    /\ iter' = iter + 1
    /\ batch' = NoBatch
    /\ pc' = "policy_loop"
    /\ log' = Append(log, "update_policy")
    /\ UNCHANGED <<discriminator, discriminator_optim,
                   actor_lr_scheduler, critic_lr_scheduler,
                   discriminator_lr_scheduler, ob_norm, data_iter, buffer,
                   config, gaeVars, round_start, rounds, raised, rewVars,
                   loadVars>>

PolicyStep ==
    /\ pc = "policy_step"
    /\ actor' = actor + 1
    /\ actor_optim' = actor_optim + 1
    /\ critic' = critic + 1
    /\ critic_optim' = critic_optim + 1
    /\ iter' = iter + 1
    /\ batch' = NoBatch
    /\ pc' = "policy_loop"
    /\ log' = Append(log, "update_policy")
    /\ UNCHANGED <<old_actor, discriminator, discriminator_optim,
                   actor_lr_scheduler, critic_lr_scheduler,
                   discriminator_lr_scheduler, ob_norm, data_iter, buffer,
                   config, gaeVars, round_start, rounds, raised, rewVars,
                   loadVars>>

\* lines 214-218 on the iterator it = [pass, pos] over a loader of n batches:
\* next(self._data_iter), and on StopIteration a new iterator and its next()
NextExpertNoRestart(it, n) ==
    IF it.pos < n
    THEN [it |-> [pass |-> it.pass, pos |-> it.pos + 1],
          batch |-> <<it.pass, it.pos + 1>>, stop |-> FALSE]
    ELSE [it |-> it, batch |-> <<0, 0>>, stop |-> TRUE]

NextExpert(it, n) ==
    IF it.pos < n
    THEN [it |-> [pass |-> it.pass, pos |-> it.pos + 1],
          batch |-> <<it.pass, it.pos + 1>>, stop |-> FALSE]
    ELSE IF n > 0
    THEN [it |-> [pass |-> it.pass + 1, pos |-> 1],
          batch |-> <<it.pass + 1, 1>>, stop |-> FALSE]
    ELSE [it |-> [pass |-> it.pass + 1, pos |-> 0],
          batch |-> <<0, 0>>, stop |-> TRUE]

\* lines 212-218: the loop head, the policy batch and the expert batch
DiscSample ==
    /\ pc = "disc_loop"
    /\ iter < NumDiscBatches
    /\ IF buffer = <<>>
       THEN /\ Raise("EmptyBuffer")
            /\ UNCHANGED <<log, data_iter>>
       ELSE LET x == NextExpert(data_iter, config.demo_batches)
            IN  /\ data_iter' = x.it
                /\ IF x.stop
                   THEN /\ Raise("StopIteration")
                        /\ log' = Append(log, "sample")
                   ELSE /\ batch' = [kind |-> "disc", low |-> FALSE,
                                     ratio |-> FALSE, advnf |-> FALSE,
                                     expert |-> x.batch]
                        /\ pc' = "update_discriminator"
                        /\ log' = Append(Append(log, "sample"), "expert")
                        /\ UNCHANGED raised
    /\ UNCHANGED <<netVars, buffer, config, gaeVars, iter, round_start,
                   rounds, rewVars, loadVars>>

\* _update_discriminator, lines 234-292: one step of the discriminator
\* optimizer
UpdateDiscriminatorStepsActor ==
    /\ pc = "update_discriminator"
    /\ actor' = actor + 1
    /\ actor_optim' = actor_optim + 1
    /\ iter' = iter + 1
    /\ batch' = NoBatch
    /\ pc' = "disc_loop"
    /\ log' = Append(log, "update_discriminator")
    /\ UNCHANGED <<discriminator, discriminator_optim, old_actor, critic,
                   critic_optim, actor_lr_scheduler, critic_lr_scheduler,
                   discriminator_lr_scheduler, ob_norm, data_iter, buffer,
                   config, gaeVars, round_start, rounds, raised, rewVars,
                   loadVars>>

UpdateDiscriminator ==
    /\ pc = "update_discriminator"
    /\ discriminator' = discriminator + 1
    /\ discriminator_optim' = discriminator_optim + 1
    /\ iter' = iter + 1
    /\ batch' = NoBatch
    /\ pc' = "disc_loop"
    /\ log' = Append(log, "update_discriminator")
    /\ UNCHANGED <<actor, old_actor, critic, actor_optim, critic_optim,
                   actor_lr_scheduler, critic_lr_scheduler,
                   discriminator_lr_scheduler, ob_norm, data_iter, buffer,
                   config, gaeVars, round_start, rounds, raised, rewVars,
                   loadVars>>

\* the discriminator loop is over
DiscLoopExit ==
    /\ pc = "disc_loop"
    /\ iter >= NumDiscBatches
    /\ pc' = "clear"
    /\ UNCHANGED <<netVars, data_iter, buffer, config, gaeVars, iter, batch,
                   log, round_start, rounds, raised, rewVars, loadVars>>

\* line 222
TrainClearKeepsBuffer ==
    /\ pc = "clear"
    /\ pc' = "return"
    /\ log' = Append(log, "clear")
    /\ UNCHANGED <<netVars, data_iter, buffer, config, gaeVars, iter, batch,
                   round_start, rounds, raised, rewVars, loadVars>>

TrainClear ==
    /\ pc = "clear"
    /\ buffer' = BufferClear(buffer)
    /\ pc' = "return"
    /\ log' = Append(log, "clear")
    /\ UNCHANGED <<netVars, data_iter, config, gaeVars, iter, batch,
                   round_start, rounds, raised, rewVars, loadVars>>

\* lines 224-232
TrainReturn ==
    /\ pc = "return"
    /\ pc' = "idle"
    /\ log' = Append(log, "return")
    /\ UNCHANGED <<netVars, data_iter, buffer, config, gaeVars, iter, batch,
                   round_start, rounds, raised, rewVars, loadVars>>

-----------------------------------------------------------------------------
(* load_state_dict *)

CkptKeys == {"actor_state_dict", "critic_state_dict",
             "discriminator_state_dict", "actor_optim_state_dict",
             "critic_optim_state_dict", "discriminator_optim_state_dict",
             "ob_norm_state_dict"}

\* the keys the two paths read, in the order they read them
PartialLoadPath == <<"actor_state_dict", "ob_norm_state_dict">>

FullLoadPath == <<"actor_state_dict", "critic_state_dict",
                  "discriminator_state_dict", "ob_norm_state_dict",
                  "actor_optim_state_dict", "critic_optim_state_dict",
                  "discriminator_optim_state_dict">>

\* line 160: which path a checkpoint with the keys ck takes
LoadPath(ck) ==
    IF "critic_state_dict" \notin ck THEN PartialLoadPath ELSE FullLoadPath

\* the keys read before the first missing one raises KeyError
RECURSIVE LoadedKeys(_, _)
LoadedKeys(path, ck) ==
    IF path = <<>> \/ Head(path) \notin ck THEN {}
    ELSE {Head(path)} \cup LoadedKeys(Tail(path), ck)

\* the value a component has after the call: the checkpoint's when its key
\* was read
AfterLoad(x, key, got) == IF key \in got THEN 50 ELSE x

LoadStateDict ==
    /\ pc = "idle"
    /\ loads < MaxLoads
    /\ \E ck \in SUBSET CkptKeys :
          LET path == LoadPath(ck)
              got == LoadedKeys(path, ck)
          IN  /\ ckpt' = ck
              /\ actor' = AfterLoad(actor, "actor_state_dict", got)
              /\ critic' = AfterLoad(critic, "critic_state_dict", got)
              /\ discriminator' =
                    AfterLoad(discriminator, "discriminator_state_dict", got)
              /\ ob_norm' = AfterLoad(ob_norm, "ob_norm_state_dict", got)
              /\ actor_optim' =
                    AfterLoad(actor_optim, "actor_optim_state_dict", got)
              /\ critic_optim' =
                    AfterLoad(critic_optim, "critic_optim_state_dict", got)
              /\ discriminator_optim' =
                    AfterLoad(discriminator_optim,
                              "discriminator_optim_state_dict", got)
              /\ raised' = IF got = {path[i] : i \in DOMAIN path}
                           THEN "none" ELSE "KeyError"
    /\ loads' = loads + 1
    /\ UNCHANGED <<old_actor, actor_lr_scheduler, critic_lr_scheduler,
                   discriminator_lr_scheduler, data_iter, buffer, config,
                   gaeVars, pc, iter, batch, log, round_start, rounds,
                   rewVars>>

-----------------------------------------------------------------------------
(* predict_reward.  Decimal floating point: [m, e] is m * 10^e with         *)
(* 1000 <= m <= 9999, or m = 0; results are rounded to four digits.         *)

RECURSIVE FNorm(_, _)
FNorm(m, e) ==
    IF m = 0 THEN [m |-> 0, e |-> 0]
    ELSE IF m > 9999 THEN FNorm((m + 5) \div 10, e + 1)
    ELSE IF m < 1000 THEN FNorm(m * 10, e - 1)
    ELSE [m |-> m, e |-> e]

FOne == [m |-> 1000, e |-> -3]

\* eps = 1e-20
Eps == [m |-> 1000, e |-> -23]

FMul(x, y) == FNorm(x.m * y.m, x.e + y.e)

FDiv(x, y) == FNorm((x.m * 100000) \div y.m, x.e - y.e - 5)

\* x + y and x - y for x >= y >= 0; digits of y more than five places below
\* x are lost
FAlign(x, y, sign) ==
    IF y.m = 0 THEN x
    ELSE IF x.m = 0 THEN y
    ELSE IF x.e - y.e > 5 THEN x
    ELSE LET d == x.e - y.e
             p == CHOOSE q \in {1, 10, 100, 1000, 10000, 100000} :
                     q = 10 ^ d
         IN  FNorm(x.m * p + sign * y.m, y.e)

FLess(x, y) ==
    IF x.m = 0 THEN y.m # 0
    ELSE IF y.m = 0 THEN FALSE
    ELSE x.e < y.e \/ (x.e = y.e /\ x.m < y.m)

FAdd(x, y) == IF FLess(x, y) THEN FAlign(y, x, 1) ELSE FAlign(x, y, 1)

FSub(x, y) == FAlign(x, y, -1)

\* e^k for an integer k, by repeated multiplication
RECURSIVE FExp(_)
FExp(k) ==
    IF k = 0 THEN FOne
    ELSE IF k > 0 THEN FMul(FExp(k - 1), [m |-> 2718, e |-> -3])
    ELSE FMul(FExp(k + 1), [m |-> 3679, e |-> -4])

\* torch.sigmoid
Sigmoid(x) == FDiv(FOne, FAdd(FOne, FExp(-x)))

\* ln(w / 10000) in units of 1e-4, for 10000 <= w < 100000: halve w into
\* [1, 2), then the series 2 (u + u^3/3 + u^5/5 + u^7/7), u = (w-1)/(w+1)
RECURSIVE LnMantissa(_)
LnMantissa(w) ==
    IF w >= 20000 THEN 6931 + LnMantissa(w \div 2)
    ELSE LET u == ((w - 10000) * 10000) \div (w + 10000)
             u2 == (u * u) \div 10000
             u3 == (u2 * u) \div 10000
             u5 == (u3 * u2) \div 10000
             u7 == (u5 * u2) \div 10000
         IN  2 * (u + u3 \div 3 + u5 \div 5 + u7 \div 7)

\* log of a positive float, in units of 1e-4
FLog(x) == LnMantissa(x.m * 10) + (x.e + 3) * 23026

\* lines 95-100, on the discriminator's logit x; the reward is in units
\* of 1e-4
RewardDropsMinus(x, vanilla) ==
    LET s == Sigmoid(x)
    IN  IF vanilla
        THEN FLog(FAdd(FSub(FOne, s), Eps))
        ELSE FLog(FAdd(s, Eps)) - FLog(FAdd(FSub(FOne, s), Eps))

Reward(x, vanilla) ==
    LET s == Sigmoid(x)
    IN  IF vanilla
        THEN -FLog(FAdd(FSub(FOne, s), Eps))
        ELSE FLog(FAdd(s, Eps)) - FLog(FAdd(FSub(FOne, s), Eps))

Logits == -MaxLogit..MaxLogit

PredictReward ==
    /\ pc = "idle"
    /\ \E x \in Logits :
          /\ logit' = x
          /\ reward' = [called |-> TRUE,
                         value |-> Reward(x, config.gail_vanilla_reward)]
    /\ prev' = [logit |-> logit, reward |-> reward]
    /\ UNCHANGED <<netVars, data_iter, buffer, config, gaeVars, trainVars,
                   loadVars>>

-----------------------------------------------------------------------------
(* Specifications *)

NoReward == [called |-> FALSE, value |-> 0]

\* the agent as __init__ leaves it; cfg is the configuration
InitAgent(cfg) ==
    /\ actor = 0
    /\ old_actor = -1
    /\ critic = 0
    /\ discriminator = 0
    /\ actor_optim = 0
    /\ critic_optim = 0
    /\ discriminator_optim = 0
    /\ actor_lr_scheduler = 0
    /\ critic_lr_scheduler = 0
    /\ discriminator_lr_scheduler = 0
    /\ ob_norm = 0
    /\ data_iter = [pass |-> 1, pos |-> 0]
    /\ buffer = <<>>
    /\ config = cfg
    /\ pc = "idle"
    /\ iter = 0
    /\ batch = NoBatch
    /\ log = <<>>
    /\ round_start = 0
    /\ rounds = 0
    /\ raised = "none"
    /\ logit = 0
    /\ reward = NoReward
    /\ prev = [logit |-> 0, reward |-> NoReward]
    /\ ckpt = {}
    /\ loads = 0

Config(g, l, vanilla, n) ==
    [rl_discount_factor |-> g, gae_lambda |-> l,
     gail_vanilla_reward |-> vanilla, demo_batches |-> n]

\* Training: rollouts are collected and stored, train() runs its rounds
Init ==
    /\ \E n \in 0..MaxExpertBatches : InitAgent(Config(Half, Half, TRUE, n))
    /\ rollouts = NoRollout
    /\ vpred = <<>>
    /\ adv = <<>>
    /\ outcome = "none"

Next ==
    \/ Collect
    \/ StoreEpisode
    \/ TrainBegin
    \/ TrainSync
    \/ PolicySample
    \/ PolicyLoopExit
    \/ GuardLogProb
    \/ GuardFinite
    \/ DebuggerContinue
    \/ DebuggerQuit
    \/ PolicyStep
    \/ DiscSample
    \/ UpdateDiscriminator
    \/ DiscLoopExit
    \/ TrainClear
    \/ TrainReturn

Spec == Init /\ [][Next]_vars

\* store_episode on every rollout of 1..MaxT transitions, with T or T + 1
\* value predictions, under every configuration of the estimator
Coefs == {Zero, Half, One}

Flags == {Zero, One}

Rewards == {Zero, One}

Values == {Zero, One, PosInf}

InitGae ==
    /\ \E g \in Coefs, l \in Coefs : InitAgent(Config(g, l, TRUE, 1))
    /\ \E T \in 1..MaxT :
          /\ \E n \in {T, T + 1} :
                /\ vpred \in [1..n -> Values]
                /\ \E d \in [1..T -> Flags], r \in [1..T -> Rewards] :
                      rollouts = [ob |-> n, done |-> d, rew |-> r]
    /\ adv = <<>>
    /\ outcome = "collected"

NextGae == StoreEpisode

SpecGae == InitGae /\ [][NextGae]_vars

\* load_state_dict on every checkpoint, into a freshly constructed agent
NextLoad == LoadStateDict

SpecLoad == Init /\ [][NextLoad]_vars

\* predict_reward on every logit, with either reward formula
InitReward ==
    /\ \E vanilla \in BOOLEAN : InitAgent(Config(Half, Half, vanilla, 1))
    /\ rollouts = NoRollout
    /\ vpred = <<>>
    /\ adv = <<>>
    /\ outcome = "none"

NextReward == PredictReward

SpecReward == InitReward /\ [][NextReward]_vars

-----------------------------------------------------------------------------
(* Properties *)

RECURSIVE Repeat(_, _)
Repeat(s, n) == IF n = 0 THEN <<>> ELSE s \o Repeat(s, n - 1)

IsPrefix(s, t) == Len(s) <= Len(t) /\ s = SubSeq(t, 1, Len(s))

Count(s, e) == Cardinality({i \in DOMAIN s : s[i] = e})

Synced == Count(log, "sync") = 1

\* C1: in every round, from the sync on, the old actor equals the actor's
\* parameters as they were when train() was called, through every policy
\* and discriminator update (and after the round), while the current actor
\* has moved by one value per policy update of the round.
C1_OldActorFrozen ==
    Synced =>
        /\ old_actor = round_start
        /\ actor = round_start + Count(log, "update_policy")

\* a second round has run all its updates: the old actor holds the actor
\* of the start of that round, which the current actor has left
C1_Witness ==
    /\ rounds = 2
    /\ pc = "clear"
    /\ old_actor = NumPolicyBatches
    /\ actor = 2 * NumPolicyBatches

\* the events of a complete round, in the order of train()
CanonicalRound ==
    <<"sched_actor", "sched_critic", "sched_discriminator", "sync">>
    \o Repeat(<<"sample", "update_policy">>, NumPolicyBatches)
    \o Repeat(<<"sample", "expert", "update_discriminator">>, NumDiscBatches)
    \o <<"clear", "return">>

\* C2: the events of every round are an initial part of the fixed order
\* (schedulers, sync, policy updates, discriminator updates, clear, return),
\* each scheduler has stepped once per call of train(), and the buffer is
\* empty from the clear to the moment train() returns.
C2_RoundOrder ==
    /\ [](/\ IsPrefix(log, CanonicalRound)
          /\ actor_lr_scheduler = rounds
          /\ critic_lr_scheduler = rounds
          /\ discriminator_lr_scheduler = rounds
          /\ (pc = "return" => buffer = <<>>))
    /\ [][pc = "return" /\ pc' = "idle" => buffer' = <<>>]_vars

\* the second round has returned after all its steps
C2_Witness ==
    /\ rounds = 2
    /\ pc = "idle"
    /\ log = CanonicalRound
    /\ buffer = <<>>

\* the reference recursion, forwards from step t of a rollout of T steps
RECURSIVE RefAdv(_, _, _, _, _)
RefAdv(t, done, rew, vp, cfg) ==
    IF t > Len(done) THEN Zero
    ELSE LET nt == RSub(One, done[t])
             g == cfg.rl_discount_factor
             l == cfg.gae_lambda
         IN  RAdd(RSub(RAdd(rew[t], RMul(RMul(g, vp[t + 1]), nt)), vp[t]),
                  RMul(RMul(RMul(g, l), nt),
                       RefAdv(t + 1, done, rew, vp, cfg)))

GaeDone == outcome \in {"stored", "CapacityError"}

\* C3: when _compute_gae completes, its advantages before normalization
\* are those of the reference recursion, the stored returns are advantage
\* plus value, a single non-terminal step has advantage r + gamma v1 - v0
\* and a terminal step has advantage rew - V.
C3_GaeRecursion ==
    GaeDone =>
        /\ Len(adv) = Len(rollouts.done)
        /\ \A t \in DOMAIN adv :
              /\ adv[t] = RefAdv(t, rollouts.done, rollouts.rew, vpred, config)
              /\ rollouts.ret[t] = RAdd(adv[t], vpred[t])
              /\ rollouts.done[t] = One =>
                    adv[t] = RSub(rollouts.rew[t], vpred[t])
        /\ (Len(adv) = 1 /\ rollouts.done[1] = Zero) =>
              adv[1] = RSub(RAdd(rollouts.rew[1],
                                 RMul(config.rl_discount_factor, vpred[2])),
                            vpred[1])

\* two steps, the first terminal and followed by a step whose advantage
\* is not 0, with gamma lambda > 0
C3_Witness ==
    /\ GaeDone
    /\ Len(adv) = 2
    /\ rollouts.done[1] = One
    /\ adv[2] # Zero
    /\ config.rl_discount_factor = Half
    /\ config.gae_lambda = Half

\* all rewards 0, all done flags 0, one value V predicted at every state
ZeroRewardConstantValue ==
    /\ GaeDone
    /\ \A t \in DOMAIN rollouts.done :
          rollouts.done[t] = Zero /\ rollouts.rew[t] = Zero
    /\ \A t \in DOMAIN vpred : vpred[t] = vpred[1]

\* C4 as stated: for any discount factor, such a rollout has advantages 0
\* and returns V.
C4_AllZeroForAnyDiscount ==
    ZeroRewardConstantValue =>
        \A t \in DOMAIN adv : adv[t] = Zero /\ rollouts.ret[t] = vpred[1]

\* C4 amended: for such a rollout the last advantage before normalization
\* is (gamma - 1) V, and the advantages are all 0 and the returns all V
\* exactly when the discount factor is 1 or V is 0, whatever lambda is.
C4_ZeroIffDiscountOne ==
    ZeroRewardConstantValue =>
        /\ adv[Len(adv)] =
              RMul(RSub(config.rl_discount_factor, One), vpred[1])
        /\ (\A t \in DOMAIN adv : adv[t] = Zero /\ rollouts.ret[t] = vpred[1])
              <=> (config.rl_discount_factor = One \/ vpred[1] = Zero)

\* two steps, discount factor 1, V = 1: advantages 0, returns 1
C4_Witness ==
    /\ ZeroRewardConstantValue
    /\ Len(adv) = 2
    /\ config.rl_discount_factor = One
    /\ vpred[1] = One
    /\ adv = <<Zero, Zero>>
    /\ rollouts.ret = <<One, One>>

\* C5: every advantage and every return of a rollout in the buffer is
\* finite.
C5_BufferFinite ==
    \A i \in DOMAIN buffer :
        /\ \A t \in DOMAIN buffer[i].adv : NormIsFinite(buffer[i].adv[t])
        /\ \A t \in DOMAIN buffer[i].ret : IsFinite(buffer[i].ret[t])

\* C6: a call of load_state_dict on a checkpoint with the actor and the
\* normalizer state that misses the critic key or the discriminator key
\* raises nothing, loads the actor and the normalizer and leaves the
\* critic, the discriminator and the three optimizers as they were.
C6_PartialLoad ==
    [][(/\ loads' = loads + 1
        /\ {"actor_state_dict", "ob_norm_state_dict"} \subseteq ckpt'
        /\ \/ "critic_state_dict" \notin ckpt'
           \/ "discriminator_state_dict" \notin ckpt')
       => /\ raised' = "none"
          /\ actor' = 50
          /\ ob_norm' = 50
          /\ UNCHANGED <<critic, discriminator, actor_optim, critic_optim,
                         discriminator_optim>>]_vars

\* C7: with a non-empty expert dataset StopIteration never leaves train();
\* only a discriminator iteration moves the iterator; every discriminator
\* iteration that has its policy batch gets an expert batch, the next of
\* the pass while the pass has one, and otherwise, and only then, the first
\* batch of a new pass.
C7_ExpertCycle ==
    /\ [](config.demo_batches >= 1 => raised # "StopIteration")
    /\ [][config.demo_batches >= 1 =>
            /\ data_iter' # data_iter =>
                  pc = "disc_loop" /\ pc' = "update_discriminator"
            /\ (pc = "disc_loop" /\ iter < NumDiscBatches /\ buffer # <<>>) =>
                  /\ pc' = "update_discriminator"
                  /\ batch'.expert = <<data_iter'.pass, data_iter'.pos>>
                  /\ IF data_iter.pos < config.demo_batches
                     THEN data_iter' = [pass |-> data_iter.pass,
                                        pos |-> data_iter.pos + 1]
                     ELSE data_iter' = [pass |-> data_iter.pass + 1,
                                        pos |-> 1]]_vars

\* the second round starts a second pass over a loader of two batches
C7_Witness ==
    /\ config.demo_batches = 2
    /\ rounds = 2
    /\ pc = "update_discriminator"
    /\ data_iter = [pass |-> 2, pos |-> 1]
    /\ batch.expert = <<2, 1>>

UpdatePolicyPcs == {"guard_log_prob", "ipdb_log_prob", "guard_finite",
                    "ipdb_finite", "policy_step"}

\* C8: _update_discriminator steps the discriminator optimizer once and
\* leaves the actor, the old actor, the critic, their optimizers and the
\* buffer as they were; _update_policy steps the actor optimizer and the
\* critic optimizer once each, where it updates, and nowhere leaves the
\* discriminator, its optimizer or the old actor changed.
C8_UpdateFrames ==
    [][/\ pc = "update_discriminator" =>
             /\ discriminator_optim' = discriminator_optim + 1
             /\ UNCHANGED <<actor, old_actor, critic, actor_optim,
                            critic_optim, buffer>>
       /\ pc \in UpdatePolicyPcs =>
             /\ UNCHANGED <<discriminator, discriminator_optim, old_actor>>
             /\ IF pc = "policy_step"
                THEN /\ actor_optim' = actor_optim + 1
                     /\ critic_optim' = critic_optim + 1
                ELSE UNCHANGED <<actor, critic, actor_optim, critic_optim>>
      ]_vars

\* the first discriminator update of a round has returned
C8_Witness ==
    /\ pc = "disc_loop"
    /\ iter = 1
    /\ discriminator_optim = 1
    /\ actor_optim = NumPolicyBatches
    /\ critic_optim = NumPolicyBatches

\* the batch trips one of the guards of _update_policy
TripsGuard(b) == b.low \/ b.ratio \/ b.advnf

\* C9: no optimizer step of _update_policy is taken on a batch that trips
\* a guard.
C9_NoStepAfterGuard ==
    [][(pc \in UpdatePolicyPcs /\
        (actor_optim' # actor_optim \/ critic_optim' # critic_optim))
       => ~TripsGuard(batch)]_vars

Vanilla == config.gail_vanilla_reward /\ reward.called

\* C10 as stated: the vanilla reward is never positive.
C10_NeverPositive == Vanilla => reward.value <= 0

\* C10 amended: the vanilla reward is never negative and at most -log(eps);
\* it is log 2 at logit 0, does not decrease as the logit grows, is
\* -log(eps) at the largest logit and 0 at the smallest.
C10_NeverNegative ==
    Vanilla =>
        /\ reward.value >= 0
        /\ reward.value <= -FLog(Eps)
        /\ logit = 0 => reward.value \in 6926..6936
        /\ logit = MaxLogit => reward.value = -FLog(Eps)
        /\ logit = -MaxLogit => reward.value = 0
        /\ (prev.reward.called /\ prev.logit <= logit) =>
              prev.reward.value <= reward.value

\* the smallest logit, then the largest
C10_Witness ==
    /\ Vanilla
    /\ prev.reward.called
    /\ prev.logit = -MaxLogit
    /\ prev.reward.value = 0
    /\ logit = MaxLogit
    /\ reward.value = 460520

\* _compute_gae fails on the rollout handed in: the number of value
\* predictions is not T + 1, or an advantage or a return of the reference
\* recursion is not finite
GaeFails ==
    \/ Len(vpred) # Len(rollouts.done) + 1
    \/ \E t \in DOMAIN rollouts.done :
          LET a == RefAdv(t, rollouts.done, rollouts.rew, vpred, config)
          IN  ~IsFinite(a) \/ ~IsFinite(RAdd(a, vpred[t]))

\* C11: once store_episode has been called, if _compute_gae fails the call
\* ends in its assertion error, nothing is in the buffer and the rollout
\* has no adv and no ret field; every rollout in the buffer has both
\* fields, each with as many entries as the rollout has done flags.
C11_StoreAllOrNothing ==
    /\ (outcome # "collected" /\ GaeFails) =>
          /\ outcome = "AssertionError"
          /\ buffer = <<>>
          /\ "adv" \notin DOMAIN rollouts
          /\ "ret" \notin DOMAIN rollouts
    /\ outcome = "AssertionError" => GaeFails
    /\ \A i \in DOMAIN buffer :
          /\ {"adv", "ret"} \subseteq DOMAIN buffer[i]
          /\ Len(buffer[i].adv) = Len(buffer[i].done)
          /\ Len(buffer[i].ret) = Len(buffer[i].done)

\* a rollout of two steps with its three value predictions, one of them
\* infinite, was refused
C11_Witness ==
    /\ outcome = "AssertionError"
    /\ Len(rollouts.done) = 2
    /\ Len(vpred) = 3
    /\ vpred[2] = PosInf
    /\ buffer = <<>>
    /\ DOMAIN rollouts = {"ob", "done", "rew"}

=============================================================================
